---- MODULE Spec2Model ----
(***************************************************************************)
(* The audit-log receiver of receiver/auditlogreceiver: the ingest handler *)
(* (handleAuditLogs, handleOTLPProtobuf, handleOTLPJSON), the key index    *)
(* kept at __keys_list__, the reprocessor (processStoredLogs) and the      *)
(* circuit breaker (CircuitBreaker).                                       *)
(*                                                                         *)
(* Time.  The code compares instants (time.Now(), entry.Timestamp,         *)
(* lastFailureTime).  The model keeps, for every instant the code stores,  *)
(* the time elapsed since it: an entry's `age` is now - Timestamp, the     *)
(* breaker's `sinceFail` is time.Since(lastFailureTime), the reprocessor's *)
(* `sinceCutoff` is the time since processStoredLogs read time.Now().      *)
(* Tick advances them all by ClockStep; each saturates at the largest      *)
(* value any comparison of the code distinguishes.                         *)
(***************************************************************************)
EXTENDS Integers, Sequences, FiniteSets, TLC

\* ------------------------------------------------------------------ bounds
\* Number of ingest requests (each gets a fresh UUID key, 1..NumReqs).
NumReqs == 2
\* Seconds by which one Tick advances the clock.
ClockStep == 15
\* Clock steps that may elapse while one reprocessor pass is running.
MaxTickTime == 1
\* Largest value of consecutiveFails the consumer is allowed to drive to.
MaxFails == 3
\* Successful deliveries of one entry are counted up to this value.
MaxCount == 2
\* RecordFailure calls without a RecordSuccess, when the breaker is driven
\* directly.
MaxCalls == 6

\* -------------------------------------------------------- program constants
\* reciever.go:32  keysListKey = "__keys_list__" (the reserved key; entry
\* keys are 1..NumReqs, so the reserved key is kept apart as 0).
keysListKey == 0
\* reciever.go:34  defaultProcessInterval = 30 * time.Second
defaultProcessInterval == 30
\* part_011:84  threshold = 5 when CircuitOpenThreshold is 0
defaultOpenThreshold == 5
\* part_011:127  openDuration = time.Minute when CircuitOpenDuration is 0
defaultOpenDuration == 60

Reqs == 1..NumReqs
EntryKeys == Reqs

Min(a, b) == IF a < b THEN a ELSE b

\* storage.Client.Get returns nil for an absent key.
Nil == [nil |-> TRUE]

VARIABLES
    cfg,        \* r.cfg: ProcessAgeThreshold, CircuitBreaker{Enabled,...}
    sd,         \* Shutdown: its position, r.ctx cancelled, its ctx expired
    started,    \* r.storage # nil (Start has acquired the storage client)
    storage,    \* the KV store: entry blobs and the blob at keysListKey
    cb,         \* r.circuitBreaker: state, consecutiveFails, lastFailureTime
    h,          \* one record per ingest request: position and what it did
    rp,         \* the reprocessor goroutine: position, keys snapshot, entry
    g,          \* history, per entry key: what has happened to the entry
    cbHist,     \* history of the breaker when it is driven directly
    req         \* history: the request each handler was given, when recorded
                \* (SpecGhost and SpecMutex say what they keep in it)

vars == <<cfg, sd, started, storage, cb, h, rp, g, cbHist, req>>

\* ------------------------------------------------------------ configuration
\* reciever.go:235-238
AgeThreshold(c) ==
    IF c.ProcessAgeThreshold = 0 THEN defaultProcessInterval
    ELSE c.ProcessAgeThreshold

\* part_011:82-85
OpenThreshold(c) ==
    IF c.CircuitOpenThreshold = 0 THEN defaultOpenThreshold
    ELSE c.CircuitOpenThreshold

\* part_011:125-128
OpenDuration(c) ==
    IF c.CircuitOpenDuration = 0 THEN defaultOpenDuration
    ELSE c.CircuitOpenDuration

\* Ages saturate here: no comparison of the code tells larger ages apart.
AgeCap(c) == AgeThreshold(c) + MaxTickTime * ClockStep

\* ---------------------------------------------------------- circuit breaker
CircuitClosed == "closed"
CircuitOpen == "open"
CircuitHalfOpen == "half-open"

\* NewCircuitBreaker: closed, no failures, lastFailureTime the zero time.
NewCircuitBreaker(c) ==
    [state |-> CircuitClosed, consecutiveFails |-> 0, sinceFail |-> OpenDuration(c)]

\* Mutant of RecordSuccess: the counter is reset, the state is kept.
RecordSuccess_KeepState(b) == [b EXCEPT !.consecutiveFails = 0]

\* Mutant of RecordSuccess: a success in half-open leaves the state alone.
RecordSuccess_ProbeStays(b) ==
    IF b.state = CircuitHalfOpen THEN [b EXCEPT !.consecutiveFails = 0]
    ELSE [b EXCEPT !.consecutiveFails = 0, !.state = CircuitClosed]

RecordSuccess(b) ==
    [b EXCEPT !.consecutiveFails = 0, !.state = CircuitClosed]

\* Mutant of RecordFailure: a failure in half-open leaves the state alone.
RecordFailure_HalfOpenStays(b, c) ==
    LET fails == b.consecutiveFails + 1
        b1 == [b EXCEPT !.consecutiveFails = fails, !.sinceFail = 0]
    IN  IF b.state = CircuitHalfOpen THEN b1
        ELSE IF fails >= OpenThreshold(c) THEN [b1 EXCEPT !.state = CircuitOpen]
        ELSE b1

\* Mutant of RecordFailure: the breaker opens one failure late.
RecordFailure_Late(b, c) ==
    LET fails == b.consecutiveFails + 1
        b1 == [b EXCEPT !.consecutiveFails = fails, !.sinceFail = 0]
    IN  IF b.state = CircuitHalfOpen THEN [b1 EXCEPT !.state = CircuitOpen]
        ELSE IF fails > OpenThreshold(c) THEN [b1 EXCEPT !.state = CircuitOpen]
        ELSE b1

RecordFailure(b, c) ==
    LET fails == b.consecutiveFails + 1
        b1 == [b EXCEPT !.consecutiveFails = fails, !.sinceFail = 0]
    IN  IF b.state = CircuitHalfOpen THEN [b1 EXCEPT !.state = CircuitOpen]
        ELSE IF fails >= OpenThreshold(c) THEN [b1 EXCEPT !.state = CircuitOpen]
        ELSE b1

\* Mutant of CheckAndUpdateState: an open breaker never becomes half-open.
CheckAndUpdateState_Stuck(b, c) == b

\* Mutant of CheckAndUpdateState: an open breaker becomes half-open at once.
CheckAndUpdateState_Early(b, c) ==
    IF b.state = CircuitOpen THEN [b EXCEPT !.state = CircuitHalfOpen] ELSE b

CheckAndUpdateState(b, c) ==
    IF b.state = CircuitOpen /\ b.sinceFail >= OpenDuration(c)
    THEN [b EXCEPT !.state = CircuitHalfOpen]
    ELSE b

\* Mutant of ShouldAttemptProcessing: an open breaker lets attempts through.
ShouldAttemptProcessing_Always(b) == TRUE

ShouldAttemptProcessing(b) ==
    b.state = CircuitClosed \/ b.state = CircuitHalfOpen

\* CheckCircuitBreakerState: the breaker after the call and the answer.
CheckCircuitBreakerState(b, c) ==
    LET b1 == CheckAndUpdateState(b, c)
    IN  [cb |-> b1, shouldProcess |-> ShouldAttemptProcessing(b1)]

\* ------------------------------------------------------------------ storage
\* storage.SetOperation / storage.DeleteOperation
SetOperation(key, value) == [op |-> "set", key |-> key, value |-> value]
DeleteOperation(key) == [op |-> "delete", key |-> key, value |-> Nil]

\* storage.Client.Batch: the operations applied in order, all or none.
RECURSIVE Batch(_, _)
Batch(st, ops) ==
    IF ops = <<>> THEN st
    ELSE LET o == Head(ops)
         IN  Batch([st EXCEPT ![o.key] = IF o.op = "set" THEN o.value ELSE Nil],
                   Tail(ops))

\* json.Marshal / json.Unmarshal of the key list ([]string).
MarshalKeys(keys) == [keys |-> keys]
UnmarshalKeys(data) == data.keys

getAllKeys(st) ==
    IF st[keysListKey] = Nil THEN <<>> ELSE UnmarshalKeys(st[keysListKey])

InSeq(k, s) == \E i \in 1..Len(s) : s[i] = k

RECURSIVE Without(_, _)
Without(s, k) ==
    IF s = <<>> THEN <<>>
    ELSE IF Head(s) = k THEN Without(Tail(s), k)
    ELSE <<Head(s)>> \o Without(Tail(s), k)

\* Mutant of storeOps: the key is appended whether or not it is indexed.
storeOps_AppendAlways(st, key, logData) ==
    <<SetOperation(key, logData),
      SetOperation(keysListKey, MarshalKeys(Append(getAllKeys(st), key)))>>

\* Mutant of storeOps: the entry is set, the index is not updated.
storeOps_NoIndex(st, key, logData) == <<SetOperation(key, logData)>>

\* The operations storeLogAndUpdateKeysList hands to Batch.
storeOps(st, key, logData) ==
    LET keys == getAllKeys(st)
    IN  <<SetOperation(key, logData)>> \o
        (IF InSeq(key, keys) THEN <<>>
         ELSE <<SetOperation(keysListKey, MarshalKeys(Append(keys, key)))>>)

\* Mutant of deleteOps: an index left without keys is written as an empty
\* list.
deleteOps_EmptyList(st, key) ==
    <<DeleteOperation(key),
      SetOperation(keysListKey, MarshalKeys(Without(getAllKeys(st), key)))>>

\* Mutant of deleteOps: the blob is deleted, the index keeps the key.
deleteOps_BlobOnly(st, key) == <<DeleteOperation(key)>>

\* The operations deleteLogAndUpdateKeysList hands to Batch.
deleteOps(st, key) ==
    LET newKeys == Without(getAllKeys(st), key)
    IN  <<DeleteOperation(key)>> \o
        (IF Len(newKeys) = 0 THEN <<DeleteOperation(keysListKey)>>
         ELSE <<SetOperation(keysListKey, MarshalKeys(newKeys))>>)

\* Mutant of storeLogAndUpdateKeysList: a failing batch has applied its first
\* operation.
storeLogAndUpdateKeysList_Partial(st, key, logData, ok) ==
    IF ok THEN Batch(st, storeOps(st, key, logData))
    ELSE Batch(st, <<SetOperation(key, logData)>>)

\* Mutant of storeLogAndUpdateKeysList: a failing batch has written the
\* index and not the entry.
storeLogAndUpdateKeysList_IndexOnly(st, key, logData, ok) ==
    IF ok THEN Batch(st, storeOps(st, key, logData))
    ELSE Batch(st, Tail(storeOps(st, key, logData)))

\* Mutant of storeLogAndUpdateKeysList: nil is returned without a batch.
storeLogAndUpdateKeysList_Lost(st, key, logData, ok) == st

\* storeLogAndUpdateKeysList under keysListMutex; ok = Get and Batch succeed.
storeLogAndUpdateKeysList(st, key, logData, ok) ==
    IF ok THEN Batch(st, storeOps(st, key, logData)) ELSE st

\* Mutant of deleteLogAndUpdateKeysList: nil is returned without a batch.
deleteLogAndUpdateKeysList_NoDelete(st, key, ok) == st

\* deleteLogAndUpdateKeysList under keysListMutex; ok = Get and Batch succeed.
deleteLogAndUpdateKeysList(st, key, ok) ==
    IF ok THEN Batch(st, deleteOps(st, key)) ELSE st

\* The write removeFromKeysList makes for the key list it has read.
removeOps(st, key) ==
    LET newKeys == Without(getAllKeys(st), key)
    IN  IF Len(newKeys) = 0 THEN <<DeleteOperation(keysListKey)>>
        ELSE <<SetOperation(keysListKey, MarshalKeys(newKeys))>>

\* Mutant of removeFromKeysList: a ghost key is left in the index.
removeFromKeysList_Keep(st, key, ok) == st

\* removeFromKeysList under keysListMutex; ok = Get and Set/Delete succeed.
removeFromKeysList(st, key, ok) ==
    LET newKeys == Without(getAllKeys(st), key)
    IN  IF ~ok THEN st
        ELSE IF Len(newKeys) = 0 THEN [st EXCEPT ![keysListKey] = Nil]
        ELSE [st EXCEPT ![keysListKey] = MarshalKeys(newKeys)]

\* The outcomes of a storage operation: it succeeds, or returns an error.
StorageOutcomes == BOOLEAN

\* The answers ConsumeLogs can give: nil, or an error that errorutil.HTTPError
\* reports as a client error (permanent) or as a server error.
ConsumerOutcomes == {"ok", "transient", "permanent"}

\* errorutil.HTTPError: the HTTP status written for an error.
HTTPErrorStatus(kind) == IF kind = "permanent" THEN 400 ELSE 500

\* -------------------------------------------------------------------- inputs
Methods == {"POST", "GET"}
ProtobufTypes == {"application/x-protobuf", "application/vnd.google.protobuf"}
JSONType == "application/json"
ContentTypes == ProtobufTypes \cup {JSONType, "text/plain"}
\* What the body decodes to: nothing, a batch of no records, a batch.
Bodies == {"malformed", "empty", "batch"}

Config(age, enabled, threshold, duration) ==
    [ProcessAgeThreshold |-> age, Enabled |-> enabled,
     CircuitOpenThreshold |-> threshold, CircuitOpenDuration |-> duration]

\* The configurations the receiver is run with: the default age threshold
\* with the breaker enabled (createDefaultConfig), and a set age threshold
\* with the breaker disabled (the zero Config of the tests).
Configs ==
    {Config(0, TRUE, 2, ClockStep), Config(ClockStep, FALSE, 0, 0)}

\* The handler handleAuditLogs dispatches a Content-Type to.
Handler(ctype) ==
    IF ctype \in ProtobufTypes THEN "handleOTLPProtobuf"
    ELSE IF ctype = JSONType THEN "handleOTLPJSON"
    ELSE "none"

\* Mutant of ResponseContentType: every handler answers as JSON.
ResponseContentType_JSON(handler) == "application/json"

\* The Content-Type header a handler sets on its 200 response.
ResponseContentType(handler) ==
    IF handler = "handleOTLPProtobuf" THEN "application/x-protobuf"
    ELSE IF handler = "handleOTLPJSON" THEN "application/json"
    ELSE "none"

\* Bytes: an encoding and the record set encoded.  The body of a request is
\* encoded as its Content-Type says.
RawBody(ctype, body) ==
    [enc |-> IF ctype \in ProtobufTypes THEN "proto" ELSE "json", records |-> body]

\* otlpReq.MarshalProto(), UnmarshalProto(data), UnmarshalJSON(data).
MarshalProto(records) == [enc |-> "proto", records |-> records]
UnmarshalProto(data) == IF data.enc = "proto" THEN data.records ELSE "error"
UnmarshalJSON(data) == IF data.enc = "json" THEN data.records ELSE "error"

\* Mutant of bodyToStore: the JSON handler stores the body as it came.
bodyToStore_Raw(handler, raw) == raw

\* The Body of the entry a handler stores: the protobuf handler stores the
\* request body, the JSON handler the protobuf encoding of the decoded
\* request (MarshalProto of a request that was just decoded returns no
\* error).
bodyToStore(handler, raw) ==
    IF handler = "handleOTLPJSON" THEN MarshalProto(UnmarshalJSON(raw)) ELSE raw

\* An entry as json.Marshal(AuditLogEntry) stores it.  dec tells what
\* json.Unmarshal gives for it: "ok", or "badEntry" (the entry JSON does not
\* unmarshal); Entry(id, age, "badBody") is an entry whose Body is no OTLP
\* encoding at all.
Entry(id, age, dec) ==
    [id |-> id, age |-> age, ContentType |-> "application/x-protobuf",
     Body |-> IF dec = "badBody" THEN [enc |-> "none", records |-> "none"]
              ELSE MarshalProto("batch"),
     dec |-> IF dec = "badBody" THEN "ok" ELSE dec]

\* The entry a handler stores for request r.
NewEntry(r, ctype, body) ==
    [Entry(r, 0, "ok") EXCEPT
        !.Body = bodyToStore(Handler(ctype), RawBody(ctype, body))]

\* Mutant of decodeBody: every body is taken as a batch.
decodeBody_Any(entry) == "batch"

\* processAuditLog decoding entry.Body as entry.ContentType says; any other
\* ContentType is wrapped into one log record.
decodeBody(entry) ==
    IF entry.ContentType \in ProtobufTypes THEN UnmarshalProto(entry.Body)
    ELSE IF entry.ContentType = JSONType THEN UnmarshalJSON(entry.Body)
    ELSE "batch"

EmptyStorage == [k \in EntryKeys \cup {keysListKey} |-> Nil]

\* A request: where its handler stands (pc), the status it answered, and what
\* the handler did: the batch had records (nonEmpty), the store batch left the
\* entry in storage (stored) or failed (storeErr), ConsumeLogs calls (calls)
\* and their success (ok), the delete batch (delIssued, delOK), and whether
\* the entry was in storage when the handler returned an error (present).
\* resp is the body written: an ExportResponse or an error.
NewRequest ==
    [pc |-> "idle", status |-> 0, resp |-> "none", nonEmpty |-> FALSE,
     stored |-> FALSE, storeErr |-> FALSE, calls |-> 0, ok |-> FALSE,
     delIssued |-> FALSE, delOK |-> FALSE, present |-> FALSE]

\* History of an entry: successful ConsumeLogs calls for it (delivered, counted
\* up to MaxCount), a delete batch was issued for it (deleted), a delete
\* batch for it failed (delFailed), the reprocessor took it up while its
\* handler had not returned (raced).
NewHistory ==
    [delivered |-> 0, deleted |-> FALSE, delFailed |-> FALSE, raced |-> FALSE]

\* RecordFailure calls since construction or the last RecordSuccess (run),
\* the last call made (last) and the breaker as it was before that call
\* (prev).
NewBreakerHistory == [run |-> 0, last |-> "none", prev |-> Nil]

\* The reprocessor: where it stands (pc), the keys read at the start of the
\* pass and the position in them, the time since the cutoff was computed, the
\* entry in hand; what the last iteration did with its key (last) and
\* whether the attempt in hand was let through by a half-open breaker
\* (probe).
IdleReprocessor ==
    [pc |-> "idle", keys |-> <<>>, pos |-> 0, sinceCutoff |-> 0, entry |-> Nil,
     last |-> "none", probe |-> FALSE]

\* Shutdown has not been called.
Running == [pc |-> "running", cancelled |-> FALSE, expired |-> FALSE]

Init ==
    /\ cfg \in Configs
    /\ sd = Running
    /\ started \in BOOLEAN
    /\ storage = EmptyStorage
    /\ cb = NewCircuitBreaker(cfg)
    /\ h = [r \in Reqs |-> NewRequest]
    /\ rp = IdleReprocessor
    /\ g = [k \in EntryKeys |-> NewHistory]
    /\ cbHist = NewBreakerHistory
    /\ req = [r \in Reqs |-> Nil]

\* ------------------------------------------------------------ ingest handler
\* The handler answers and returns.
Respond(hr, status) ==
    [hr EXCEPT !.pc = "done", !.status = status,
               !.resp = IF status = 200 THEN "ExportResponse" ELSE "error"]

IsPresent(st, key) == st[key] # Nil /\ InSeq(key, getAllKeys(st))

\* Mutant of Accepted: every Content-Type is taken as OTLP.
Accepted_Any(ctype) == TRUE

\* The Content-Type values handleAuditLogs lets through.
Accepted(ctype) == ctype \in ProtobufTypes \cup {JSONType}

\* Mutant of LogRecordCount: a batch without records counts as one record.
LogRecordCount_One(body) == 1

\* logs.LogRecordCount() of a decoded body.
LogRecordCount(body) == IF body = "batch" THEN 1 ELSE 0

\* Mutant of handleAuditLogs: the request is stored and answered 202 at
\* once, before ConsumeLogs is called.
handleAuditLogs_Legacy(r, method, ctype, body, ok) ==
    /\ h[r].pc = "idle"
    /\ storage' = storeLogAndUpdateKeysList(storage, r, NewEntry(r, ctype, body), TRUE)
    /\ h' = [h EXCEPT ![r] =
                [@ EXCEPT !.pc = "attempt", !.status = 202, !.nonEmpty = TRUE,
                          !.stored = TRUE]]
    /\ UNCHANGED <<cfg, sd, started, cb, rp, g, cbHist>>

\* handleAuditLogs up to and including the batch that stores the entry
\* (handleOTLPProtobuf / handleOTLPJSON to the call of ConsumeLogs).
handleAuditLogs(r, method, ctype, body, ok) ==
    LET hr == h[r]
        st == storeLogAndUpdateKeysList(storage, r, NewEntry(r, ctype, body), ok)
    IN
    /\ h[r].pc = "idle"
    /\ IF method # "POST" THEN
            /\ h' = [h EXCEPT ![r] = Respond(hr, HTTPErrorStatus("permanent"))]
            /\ UNCHANGED storage
       ELSE IF ~Accepted(ctype) THEN
            /\ h' = [h EXCEPT ![r] = Respond(hr, HTTPErrorStatus("permanent"))]
            /\ UNCHANGED storage
       ELSE IF body = "malformed" THEN
            /\ h' = [h EXCEPT ![r] = Respond(hr, HTTPErrorStatus("permanent"))]
            /\ UNCHANGED storage
       ELSE IF LogRecordCount(body) = 0 THEN
            /\ h' = [h EXCEPT ![r] = Respond(hr, 200)]
            /\ UNCHANGED storage
       ELSE IF ~started THEN
            /\ h' = [h EXCEPT ![r] = [hr EXCEPT !.pc = "attempt", !.nonEmpty = TRUE]]
            /\ UNCHANGED storage
       ELSE IF ~ok THEN
            /\ storage' = st
            /\ h' = [h EXCEPT ![r] =
                        [Respond(hr, HTTPErrorStatus("storage")) EXCEPT
                            !.nonEmpty = TRUE, !.storeErr = TRUE]]
       ELSE
            /\ storage' = st
            /\ h' = [h EXCEPT ![r] =
                        [hr EXCEPT !.pc = "attempt", !.nonEmpty = TRUE,
                                   !.stored = IsPresent(st, r)]]
    /\ UNCHANGED <<cfg, sd, started, cb, rp, g, cbHist>>

\* An HTTP request arrives at /v1/logs.
Receive(r) ==
    \E method \in Methods, ctype \in ContentTypes, body \in Bodies,
       ok \in StorageOutcomes :
        /\ handleAuditLogs(r, method, ctype, body, ok)
        /\ UNCHANGED req

Count(n) == Min(n + 1, MaxCount)

\* Mutant of inlineAttempt: a rejected entry is dropped from storage.
inlineAttempt_DropOnReject(r, res) ==
    /\ h[r].pc = "attempt"
    /\ IF res = "ok" THEN
            /\ g' = [g EXCEPT ![r].delivered = Count(@)]
            /\ h' = [h EXCEPT ![r] =
                        [@ EXCEPT !.pc = IF started THEN "delete" ELSE "done",
                                  !.status = 200, !.resp = "ExportResponse",
                                  !.calls = 1, !.ok = TRUE]]
            /\ UNCHANGED storage
       ELSE
            /\ storage' = Batch(storage, deleteOps(storage, r))
            /\ h' = [h EXCEPT ![r] =
                        [Respond(@, HTTPErrorStatus(res)) EXCEPT
                            !.calls = 1, !.present = IsPresent(storage', r)]]
            /\ UNCHANGED g
    /\ UNCHANGED <<cfg, sd, started, cb, rp, cbHist, req>>

\* r.consumer.ConsumeLogs(ctx, logs) of the handler returns res; on an error
\* the handler answers it and returns, on nil it writes 200 OK.
inlineAttempt(r, res) ==
    /\ h[r].pc = "attempt"
    /\ IF res = "ok" THEN
            /\ g' = [g EXCEPT ![r].delivered = Count(@)]
            /\ h' = [h EXCEPT ![r] =
                        [@ EXCEPT !.pc = IF started THEN "delete" ELSE "done",
                                  !.status = 200, !.resp = "ExportResponse",
                                  !.calls = 1, !.ok = TRUE]]
       ELSE
            /\ h' = [h EXCEPT ![r] =
                        [Respond(@, HTTPErrorStatus(res)) EXCEPT
                            !.calls = 1, !.present = IsPresent(storage, r)]]
            /\ UNCHANGED g
    /\ UNCHANGED <<cfg, sd, started, storage, cb, rp, cbHist, req>>

ConsumeInline(r) == \E res \in ConsumerOutcomes : inlineAttempt(r, res)

\* After 200 OK was written: deleteLogAndUpdateKeysList(key), its error only
\* logged; the handler returns.
inlineDelete(r, ok) ==
    /\ h[r].pc = "delete"
    /\ storage' = deleteLogAndUpdateKeysList(storage, r, ok)
    /\ g' = [g EXCEPT ![r].deleted = TRUE, ![r].delFailed = @ \/ ~ok]
    /\ h' = [h EXCEPT ![r] = [@ EXCEPT !.pc = "done", !.delIssued = TRUE, !.delOK = ok]]
    /\ UNCHANGED <<cfg, sd, started, cb, rp, cbHist, req>>

FinishInline(r) == \E ok \in StorageOutcomes : inlineDelete(r, ok)

\* --------------------------------------------------------------- reprocessor
\* `continue` of the loop over keys; after the last key the pass returns.
\* Mutant of Continue: the loop takes up the same key again.
Continue_SameKey(p, why) ==
    [p EXCEPT !.pc = "loop", !.entry = Nil, !.last = why, !.probe = FALSE]

Continue(p, why) ==
    IF p.pos >= Len(p.keys) THEN [IdleReprocessor EXCEPT !.last = why]
    ELSE [p EXCEPT !.pc = "loop", !.pos = p.pos + 1, !.entry = Nil,
                   !.last = why, !.probe = FALSE]

CurrentKey == rp.keys[rp.pos]

\* Mutant of TooYoung: a threshold of 0 is not replaced by the default.
TooYoung_NoDefault(entry, c, sinceCutoff) ==
    entry.age < c.ProcessAgeThreshold + sinceCutoff

\* entry.Timestamp.After(cutoffTime), cutoffTime = (time.Now() at the start
\* of the pass) - ageThreshold: the entry is too young.
TooYoung(entry, c, sinceCutoff) ==
    entry.age < AgeThreshold(c) + sinceCutoff

\* A ticker tick: processStoredLogs reads the key list and the cutoff time.
startPass(ok) ==
    /\ started
    /\ rp.pc = "idle"
    /\ rp' = IF ok /\ Len(getAllKeys(storage)) > 0
             THEN [IdleReprocessor EXCEPT
                        !.pc = "loop", !.keys = getAllKeys(storage), !.pos = 1]
             ELSE IdleReprocessor
    /\ UNCHANGED <<cfg, sd, started, storage, cb, h, g, cbHist, req>>

TickerFires == \E ok \in StorageOutcomes : startPass(ok)

\* One iteration of the loop of processStoredLogs up to the call of
\* ConsumeLogs in processAuditLog: Get, ghost removal, decoding, the age
\* check and the breaker checks.  okGet, okRemove: the storage outcomes.
examineKey(okGet, okRemove) ==
    LET key == CurrentKey
        data == storage[key]
        chk == CheckCircuitBreakerState(cb, cfg)
    IN
    /\ rp.pc = "loop"
    /\ IF ~okGet THEN
            /\ rp' = Continue(rp, "getErr")
            /\ UNCHANGED <<storage, cb>>
       ELSE IF data = Nil THEN
            /\ storage' = removeFromKeysList(storage, key, okRemove)
            /\ rp' = Continue(rp, "ghost")
            /\ UNCHANGED cb
       ELSE IF data.dec = "badEntry" THEN
            /\ rp' = Continue(rp, "badEntry")
            /\ UNCHANGED <<storage, cb>>
       ELSE IF TooYoung(data, cfg, rp.sinceCutoff) THEN
            /\ rp' = Continue(rp, "young")
            /\ UNCHANGED <<storage, cb>>
       ELSE IF cfg.Enabled /\ ~chk.shouldProcess THEN
            /\ cb' = chk.cb
            /\ rp' = Continue(rp, "refused")
            /\ UNCHANGED storage
       ELSE IF decodeBody(data) = "error" THEN
            /\ cb' = IF cfg.Enabled THEN chk.cb ELSE cb
            /\ rp' = Continue(rp, "badBody")
            /\ UNCHANGED storage
       ELSE
            /\ cb' = IF cfg.Enabled THEN chk.cb ELSE cb
            /\ rp' = [rp EXCEPT !.pc = "consume", !.entry = data,
                                !.last = "attempt",
                                !.probe = cfg.Enabled /\ chk.cb.state = CircuitHalfOpen]
            /\ UNCHANGED storage
    /\ g' = IF rp'.pc = "consume" /\ h[key].pc \in {"attempt", "delete"}
            THEN [g EXCEPT ![key].raced = TRUE] ELSE g
    /\ UNCHANGED <<cfg, sd, started, h, cbHist, req>>

ExamineKey == \E okGet, okRemove \in StorageOutcomes : examineKey(okGet, okRemove)

\* Mutant of AfterAttempt: the entry is deleted whatever the attempt gave.
AfterAttempt_DeleteAlways(p, res) == [p EXCEPT !.pc = "delete"]

\* What processStoredLogs does after processAuditLog returned: delete the
\* entry on nil, continue with the next key on an error.
AfterAttempt(p, res) ==
    IF res = "ok" THEN [p EXCEPT !.pc = "delete"] ELSE Continue(p, p.last)

\* Mutant of processAuditLog: the outcome is recorded on a disabled breaker.
processAuditLog_RecordAlways(res) ==
    /\ rp.pc = "consume"
    /\ res # "ok" => cb.consecutiveFails < MaxFails
    /\ g' = IF res = "ok" THEN [g EXCEPT ![CurrentKey].delivered = Count(@)] ELSE g
    /\ cb' = IF res = "ok" THEN RecordSuccess(cb) ELSE RecordFailure(cb, cfg)
    /\ rp' = AfterAttempt(rp, res)
    /\ UNCHANGED <<cfg, sd, started, storage, h, cbHist, req>>

\* processAuditLog from ConsumeLogs on: the consumer answers res and the
\* breaker, when enabled, records it.
processAuditLog(res) ==
    /\ rp.pc = "consume"
    /\ res # "ok" /\ cfg.Enabled => cb.consecutiveFails < MaxFails
    /\ g' = IF res = "ok" THEN [g EXCEPT ![CurrentKey].delivered = Count(@)] ELSE g
    /\ cb' = IF ~cfg.Enabled THEN cb
             ELSE IF res = "ok" THEN RecordSuccess(cb)
             ELSE RecordFailure(cb, cfg)
    /\ rp' = AfterAttempt(rp, res)
    /\ UNCHANGED <<cfg, sd, started, storage, h, cbHist, req>>

Reprocess == \E res \in ConsumerOutcomes : processAuditLog(res)

\* deleteLogAndUpdateKeysList(key) after a successful delivery.
deleteProcessed(ok) ==
    /\ rp.pc = "delete"
    /\ storage' = deleteLogAndUpdateKeysList(storage, CurrentKey, ok)
    /\ g' = [g EXCEPT ![CurrentKey].deleted = TRUE, ![CurrentKey].delFailed = @ \/ ~ok]
    /\ rp' = Continue(rp, rp.last)
    /\ UNCHANGED <<cfg, sd, started, cb, h, cbHist, req>>

DeleteProcessed == \E ok \in StorageOutcomes : deleteProcessed(ok)

\* ---------------------------------------------------------------------- time
Older(e, c) ==
    IF e = Nil THEN Nil ELSE [e EXCEPT !.age = Min(@ + ClockStep, AgeCap(c))]

\* ClockStep seconds pass.
Tick ==
    /\ rp.pc = "idle" \/ rp.sinceCutoff < MaxTickTime * ClockStep
    /\ storage' = [k \in DOMAIN storage |->
                      IF k = keysListKey THEN storage[k] ELSE Older(storage[k], cfg)]
    /\ cb' = [cb EXCEPT !.sinceFail = Min(@ + ClockStep, OpenDuration(cfg))]
    /\ rp' = IF rp.pc = "idle" THEN rp
             ELSE [rp EXCEPT !.sinceCutoff = @ + ClockStep,
                             !.entry = Older(@, cfg)]
    /\ UNCHANGED <<cfg, sd, started, h, g, cbHist, req>>

Next ==
    \/ \E r \in Reqs : Receive(r)
    \/ \E r \in Reqs : ConsumeInline(r)
    \/ \E r \in Reqs : FinishInline(r)
    \/ TickerFires
    \/ ExamineKey
    \/ Reprocess
    \/ DeleteProcessed
    \/ Tick

Spec == Init /\ [][Next]_vars

\* A started receiver whose storage operations succeed and whose reprocessor
\* keeps running: the clock advances, the ticker keeps firing, every step of
\* a pass is eventually taken, and for each key the delivery succeeds again
\* and again when it is tried again and again (which it does when, from some
\* point on, the consumer always accepts).
InitLive == Init /\ started

NextLive ==
    \/ \E r \in Reqs, method \in Methods, ctype \in ContentTypes, body \in Bodies :
            handleAuditLogs(r, method, ctype, body, TRUE) /\ UNCHANGED req
    \/ \E r \in Reqs : ConsumeInline(r)
    \/ \E r \in Reqs : inlineDelete(r, TRUE)
    \/ startPass(TRUE)
    \/ examineKey(TRUE, TRUE)
    \/ Reprocess
    \/ deleteProcessed(TRUE)
    \/ Tick

LiveFairness ==
    /\ WF_vars(Tick)
    /\ WF_vars(startPass(TRUE))
    /\ WF_vars(examineKey(TRUE, TRUE))
    /\ WF_vars(Reprocess)
    /\ WF_vars(deleteProcessed(TRUE))
    /\ \A k \in EntryKeys : SF_vars(processAuditLog("ok") /\ CurrentKey = k)

SpecLive == InitLive /\ [][NextLive]_vars /\ LiveFairness

\* ------------------------------------------------- the breaker on its own
\* The breaker configurations: threshold and open duration, 0 = default.
BreakerConfigs ==
    {Config(0, TRUE, t, d) : t \in {0, 1, 2, 3}, d \in {0, ClockStep}}

InitCB ==
    /\ cfg \in BreakerConfigs
    /\ sd = Running
    /\ started = FALSE
    /\ storage = EmptyStorage
    /\ cb = NewCircuitBreaker(cfg)
    /\ h = [r \in Reqs |-> NewRequest]
    /\ rp = IdleReprocessor
    /\ g = [k \in EntryKeys |-> NewHistory]
    /\ cbHist = NewBreakerHistory
    /\ req = [r \in Reqs |-> Nil]

CallRecordFailure ==
    /\ cbHist.run < MaxCalls
    /\ cb' = RecordFailure(cb, cfg)
    /\ cbHist' = [run |-> cbHist.run + 1, last |-> "failure", prev |-> cb]
    /\ UNCHANGED <<cfg, sd, started, storage, h, rp, g, req>>

CallRecordSuccess ==
    /\ cb' = RecordSuccess(cb)
    /\ cbHist' = [run |-> 0, last |-> "success", prev |-> cb]
    /\ UNCHANGED <<cfg, sd, started, storage, h, rp, g, req>>

CallCheckCircuitBreakerState ==
    LET chk == CheckCircuitBreakerState(cb, cfg) IN
    /\ cb' = chk.cb
    /\ cbHist' = [cbHist EXCEPT
                    !.last = IF chk.shouldProcess THEN "allowed" ELSE "refused",
                    !.prev = cb]
    /\ UNCHANGED <<cfg, sd, started, storage, h, rp, g, req>>

\* ClockStep seconds pass.
BreakerTick ==
    /\ cb' = [cb EXCEPT !.sinceFail = Min(@ + ClockStep, OpenDuration(cfg))]
    /\ cbHist' = [cbHist EXCEPT !.last = "tick", !.prev = cb]
    /\ UNCHANGED <<cfg, sd, started, storage, h, rp, g, req>>

NextCB ==
    \/ CallRecordFailure
    \/ CallRecordSuccess
    \/ CallCheckCircuitBreakerState
    \/ BreakerTick

SpecCB == InitCB /\ [][NextCB]_vars

\* ------------------------------------------- the breaker's methods and mutex
\* Goroutines calling the methods of the breaker, each method as its
\* statements run: RLock or Lock of cb.mutex, the write of a field where the
\* method makes one (begun, then completed), the deferred unlock.  A
\* goroutine is [pc, method, lock]: pc is "idle", "held" (inside the lock),
\* "writing" (a write of a field is in progress) or "written".
BreakerMethods ==
    {"IsOpen", "IsHalfOpen", "RecordSuccess", "RecordFailure", "GetState",
     "GetConsecutiveFailures", "ShouldAttemptProcessing", "CheckAndUpdateState"}

\* The lock a method takes: cb.mutex.Lock() or cb.mutex.RLock().
LockOf(method) ==
    IF method \in {"RecordSuccess", "RecordFailure", "CheckAndUpdateState"}
    THEN "W" ELSE "R"

\* IsOpen: an open breaker whose open duration has passed becomes half-open;
\* the result is whether the breaker is open then.
IsOpen(b, c) ==
    LET after == IF b.state = CircuitOpen /\ b.sinceFail >= OpenDuration(c)
                 THEN [b EXCEPT !.state = CircuitHalfOpen] ELSE b
    IN  [cb |-> after, open |-> after.state = CircuitOpen]

\* The breaker after the body of a method.
AfterMethod(method, b, c) ==
    IF method = "IsOpen" THEN IsOpen(b, c).cb
    ELSE IF method = "RecordSuccess" THEN RecordSuccess(b)
    ELSE IF method = "RecordFailure" THEN RecordFailure(b, c)
    ELSE IF method = "CheckAndUpdateState" THEN CheckAndUpdateState(b, c)
    ELSE b

IdleGoroutine == [pc |-> "idle", method |-> "none", lock |-> "none"]

InitRW ==
    /\ cfg \in {Config(0, TRUE, 1, ClockStep), Config(0, TRUE, 2, 0)}
    /\ sd = Running
    /\ started = FALSE
    /\ storage = EmptyStorage
    /\ cb = NewCircuitBreaker(cfg)
    /\ h = [p \in Reqs |-> IdleGoroutine]
    /\ rp = IdleReprocessor
    /\ g = [k \in EntryKeys |-> NewHistory]
    /\ cbHist = NewBreakerHistory
    /\ req = [r \in Reqs |-> Nil]

\* sync.RWMutex: RLock returns when no goroutine holds the write lock, Lock
\* when no goroutine holds the mutex at all.
AcquireLock(p, method) ==
    /\ h[p].pc = "idle"
    /\ IF LockOf(method) = "R" THEN \A q \in Reqs : h[q].lock # "W"
       ELSE \A q \in Reqs : h[q].lock = "none"
    /\ method = "RecordFailure" => cb.consecutiveFails < MaxFails
    /\ h' = [h EXCEPT ![p] = [pc |-> "held", method |-> method, lock |-> LockOf(method)]]
    /\ UNCHANGED <<cfg, sd, started, storage, cb, rp, g, cbHist, req>>

\* The body of the method up to its first write of a field, if it makes one.
BeginBody(p) ==
    /\ h[p].pc = "held"
    /\ h' = [h EXCEPT ![p].pc =
                IF AfterMethod(h[p].method, cb, cfg) # cb
                    \/ h[p].method \in {"RecordSuccess", "RecordFailure"}
                THEN "writing" ELSE "written"]
    /\ UNCHANGED <<cfg, sd, started, storage, cb, rp, g, cbHist, req>>

\* The writes of the method are completed.
CompleteWrite(p) ==
    /\ h[p].pc = "writing"
    /\ cb' = AfterMethod(h[p].method, cb, cfg)
    /\ h' = [h EXCEPT ![p].pc = "written"]
    /\ UNCHANGED <<cfg, sd, started, storage, rp, g, cbHist, req>>

\* The deferred RUnlock or Unlock; the method returns.
ReleaseLock(p) ==
    /\ h[p].pc = "written"
    /\ h' = [h EXCEPT ![p] = IdleGoroutine]
    /\ UNCHANGED <<cfg, sd, started, storage, cb, rp, g, cbHist, req>>

NextRW ==
    \/ \E p \in Reqs, method \in BreakerMethods : AcquireLock(p, method)
    \/ \E p \in Reqs : BeginBody(p)
    \/ \E p \in Reqs : CompleteWrite(p)
    \/ \E p \in Reqs : ReleaseLock(p)
    \/ BreakerTick

SpecRW == InitRW /\ [][NextRW]_vars

\* ------------------------------------------------ the handlers on their own
\* The HTTP handlers with each request kept as history: what was sent
\* (method, Content-Type, what the body decodes to) and the Content-Type
\* header of the handler's 200 response (respType).
ReceiveLogged(r) ==
    \E method \in Methods, ctype \in ContentTypes, body \in Bodies,
       ok \in StorageOutcomes :
        /\ handleAuditLogs(r, method, ctype, body, ok)
        /\ req' = [req EXCEPT ![r] =
                        [method |-> method, ctype |-> ctype, body |-> body,
                         respType |-> ResponseContentType(Handler(ctype))]]

NextHTTP ==
    \/ \E r \in Reqs : ReceiveLogged(r)
    \/ \E r \in Reqs : ConsumeInline(r)
    \/ \E r \in Reqs : FinishInline(r)

SpecHTTP == Init /\ [][NextHTTP]_vars

\* ------------------------------------------- the reprocessor after a restart
\* What a started receiver can find in its storage: an index without
\* duplicates, and for each key of the index no blob (a ghost key), a young
\* or an old entry, an entry that does not unmarshal, or one whose body
\* does not decode.  No request arrives; storage operations succeed.
SeedIndexes ==
    {<<>>} \cup {<<k>> : k \in EntryKeys}
           \cup {<<j, k>> : <<j, k>> \in {p \in EntryKeys \X EntryKeys : p[1] # p[2]}}

SeedBlobs(k, c) ==
    {Nil, Entry(k, 0, "ok"), Entry(k, AgeCap(c), "ok"),
     Entry(k, AgeCap(c), "badEntry"), Entry(k, AgeCap(c), "badBody")}

SeedStorages(c) ==
    UNION {
        {[k \in EntryKeys \cup {keysListKey} |->
            IF k # keysListKey THEN f[k]
            ELSE IF idx = <<>> THEN Nil ELSE MarshalKeys(idx)] :
         f \in {f \in [EntryKeys -> UNION {SeedBlobs(k, c) : k \in EntryKeys}] :
                    \A k \in EntryKeys :
                        /\ f[k] \in SeedBlobs(k, c)
                        /\ f[k] # Nil => InSeq(k, idx)}} :
        idx \in SeedIndexes}

\* In this specification req keeps what the storage held at the start:
\* the key was in the index (indexed), its blob existed (blob).
InitGhost ==
    /\ cfg \in Configs
    /\ sd = Running
    /\ started = TRUE
    /\ storage \in SeedStorages(cfg)
    /\ cb = NewCircuitBreaker(cfg)
    /\ h = [r \in Reqs |-> NewRequest]
    /\ rp = IdleReprocessor
    /\ g = [k \in EntryKeys |-> NewHistory]
    /\ cbHist = NewBreakerHistory
    /\ req = [k \in EntryKeys |->
                [indexed |-> InSeq(k, getAllKeys(storage)), blob |-> storage[k] # Nil]]

PassStarts == startPass(TRUE)
PassExamines == examineKey(TRUE, TRUE)
PassDeletes == deleteProcessed(TRUE)

NextGhost ==
    \/ PassStarts
    \/ PassExamines
    \/ Reprocess
    \/ PassDeletes
    \/ Tick

SpecGhost == InitGhost /\ [][NextGhost]_vars

\* ------------------------------------------------ keysListMutex step by step
\* storeLogAndUpdateKeysList, deleteLogAndUpdateKeysList and
\* removeFromKeysList as their statements run: Lock and getAllKeys, from
\* which the operations are built, then the write and the deferred Unlock.
\* A handler is [pc, ops, rejected, met]: the operations it built, whether
\* the consumer rejected its batch, and whether another handler was under
\* way when it took the lock.  The reprocessor is [pc, key, op, ops].  Here
\* req keeps the index as the completed operations, applied one after
\* another in the order of their writes, give it.
MutexHandler(pc) == [pc |-> pc, ops |-> <<>>, rejected |-> FALSE, met |-> FALSE]
MutexReprocessor == [pc |-> "idle", key |-> keysListKey, op |-> "none", ops |-> <<>>]

\* Some goroutine is between Lock and Unlock of keysListMutex.
MutexHeld ==
    \/ \E r \in Reqs : h[r].pc \in {"storing", "deleting"}
    \/ rp.pc = "locked"

\* Mutant of MutexFree: Lock never waits.
MutexFree_Always == TRUE

\* r.keysListMutex.Lock() returns.
MutexFree == ~MutexHeld

\* The index after a store or a removal of key, as one operation gives it.
AppliedStore(index, key) == IF InSeq(key, index) THEN index ELSE Append(index, key)
AppliedRemove(index, key) == Without(index, key)

\* Storage with ghost keys only: every indexed key lacks its blob, and no
\* request with such a key arrives.
InitMutex ==
    /\ cfg \in Configs
    /\ sd = Running
    /\ started = TRUE
    /\ \E idx \in SeedIndexes :
            /\ storage = [EmptyStorage EXCEPT
                            ![keysListKey] = IF idx = <<>> THEN Nil ELSE MarshalKeys(idx)]
            /\ h = [r \in Reqs |->
                        MutexHandler(IF InSeq(r, idx) THEN "none" ELSE "idle")]
            /\ req = [index |-> idx]
    /\ cb = NewCircuitBreaker(cfg)
    /\ rp = MutexReprocessor
    /\ g = [k \in EntryKeys |-> NewHistory]
    /\ cbHist = NewBreakerHistory

\* storeLogAndUpdateKeysList: Lock, getAllKeys, the operations.
storeLock(r, okGet) ==
    /\ h[r].pc = "idle"
    /\ MutexFree
    /\ h' = [h EXCEPT ![r] =
                IF ~okGet THEN [@ EXCEPT !.pc = "done"]
                ELSE [@ EXCEPT !.pc = "storing",
                        !.ops = storeOps(storage, r,
                                    NewEntry(r, "application/x-protobuf", "batch")),
                        !.met = \E q \in Reqs \ {r} :
                                    h[q].pc \notin {"none", "idle", "done"}]]
    /\ UNCHANGED <<cfg, sd, started, storage, cb, rp, g, cbHist, req>>

\* storeLogAndUpdateKeysList: Batch and Unlock.
storeBatch(r, ok) ==
    /\ h[r].pc = "storing"
    /\ storage' = IF ok THEN Batch(storage, h[r].ops) ELSE storage
    /\ req' = IF ok THEN [index |-> AppliedStore(req.index, r)] ELSE req
    /\ h' = [h EXCEPT ![r].pc = IF ok THEN "attempt" ELSE "done"]
    /\ UNCHANGED <<cfg, sd, started, cb, rp, g, cbHist>>

\* ConsumeLogs of the handler.
consumeStored(r, res) ==
    /\ h[r].pc = "attempt"
    /\ h' = [h EXCEPT ![r] =
                IF res = "ok" THEN [@ EXCEPT !.pc = "delivered"]
                ELSE [@ EXCEPT !.pc = "done", !.rejected = TRUE]]
    /\ g' = IF res = "ok" THEN [g EXCEPT ![r].delivered = Count(@)] ELSE g
    /\ UNCHANGED <<cfg, sd, started, storage, cb, rp, cbHist, req>>

\* deleteLogAndUpdateKeysList of the handler: Lock, getAllKeys, the operations.
deleteLock(r, okGet) ==
    /\ h[r].pc = "delivered"
    /\ MutexFree
    /\ h' = [h EXCEPT ![r] =
                IF ~okGet THEN [@ EXCEPT !.pc = "done"]
                ELSE [@ EXCEPT !.pc = "deleting", !.ops = deleteOps(storage, r)]]
    /\ UNCHANGED <<cfg, sd, started, storage, cb, rp, g, cbHist, req>>

\* deleteLogAndUpdateKeysList of the handler: Batch and Unlock.
deleteBatch(r, ok) ==
    /\ h[r].pc = "deleting"
    /\ storage' = IF ok THEN Batch(storage, h[r].ops) ELSE storage
    /\ req' = IF ok THEN [index |-> AppliedRemove(req.index, r)] ELSE req
    /\ g' = IF ok THEN [g EXCEPT ![r].deleted = TRUE] ELSE g
    /\ h' = [h EXCEPT ![r].pc = "done"]
    /\ UNCHANGED <<cfg, sd, started, cb, rp, cbHist>>

\* processStoredLogs gets the blob of an indexed key: a ghost key is to be
\* removed from the index, a delivered entry to be deleted.
rpGet(key, res) ==
    /\ rp.pc = "idle"
    /\ InSeq(key, getAllKeys(storage))
    /\ storage[key] # Nil => res = "ok"
    /\ rp' = [MutexReprocessor EXCEPT
                !.pc = "want", !.key = key,
                !.op = IF storage[key] = Nil THEN "remove" ELSE "delete"]
    /\ g' = IF storage[key] # Nil THEN [g EXCEPT ![key].delivered = Count(@)] ELSE g
    /\ UNCHANGED <<cfg, sd, started, storage, cb, h, cbHist, req>>

\* removeFromKeysList / deleteLogAndUpdateKeysList of the reprocessor: Lock,
\* getAllKeys, the operations.
rpLock(okGet) ==
    /\ rp.pc = "want"
    /\ MutexFree
    /\ rp' = IF ~okGet THEN MutexReprocessor
             ELSE [rp EXCEPT !.pc = "locked",
                       !.ops = IF rp.op = "remove" THEN removeOps(storage, rp.key)
                               ELSE deleteOps(storage, rp.key)]
    /\ UNCHANGED <<cfg, sd, started, storage, cb, h, g, cbHist, req>>

\* The write of the reprocessor and Unlock.
rpBatch(ok) ==
    /\ rp.pc = "locked"
    /\ storage' = IF ok THEN Batch(storage, rp.ops) ELSE storage
    /\ req' = IF ok THEN [index |-> AppliedRemove(req.index, rp.key)] ELSE req
    /\ g' = IF ok /\ rp.op = "delete" THEN [g EXCEPT ![rp.key].deleted = TRUE] ELSE g
    /\ rp' = MutexReprocessor
    /\ UNCHANGED <<cfg, sd, started, cb, h, cbHist>>

NextMutex ==
    \/ \E r \in Reqs, ok \in StorageOutcomes : storeLock(r, ok)
    \/ \E r \in Reqs, ok \in StorageOutcomes : storeBatch(r, ok)
    \/ \E r \in Reqs, res \in ConsumerOutcomes : consumeStored(r, res)
    \/ \E r \in Reqs, ok \in StorageOutcomes : deleteLock(r, ok)
    \/ \E r \in Reqs, ok \in StorageOutcomes : deleteBatch(r, ok)
    \/ \E key \in EntryKeys, res \in ConsumerOutcomes : rpGet(key, res)
    \/ \E ok \in StorageOutcomes : rpLock(ok)
    \/ \E ok \in StorageOutcomes : rpBatch(ok)

SpecMutex == InitMutex /\ [][NextMutex]_vars

\* ------------------------------------------------------------------ Shutdown
\* Shutdown(ctx) of a started receiver whose storage holds entries:
\* r.cancel(), r.wg.Wait(), r.storage.Close(ctx), r.server.Shutdown(ctx).
\* The loop of processStoredLogsLoop leaves through r.ctx.Done() when it is
\* at its select; rp.pc = "exited" is the goroutine after wg.Done().
CallShutdown ==
    /\ sd.pc = "running"
    /\ sd' = [sd EXCEPT !.pc = "wait", !.cancelled = TRUE]
    /\ UNCHANGED <<cfg, started, storage, cb, h, rp, g, cbHist, req>>

\* The deadline of the ctx given to Shutdown passes.
DeadlinePasses ==
    /\ sd.pc \notin {"running", "returned"}
    /\ ~sd.expired
    /\ sd' = [sd EXCEPT !.expired = TRUE]
    /\ UNCHANGED <<cfg, started, storage, cb, h, rp, g, cbHist, req>>

\* processStoredLogsLoop: the select takes r.ctx.Done() and the goroutine
\* returns.
LoopExits ==
    /\ sd.cancelled
    /\ rp.pc = "idle"
    /\ rp' = [IdleReprocessor EXCEPT !.pc = "exited"]
    /\ UNCHANGED <<cfg, sd, started, storage, cb, h, g, cbHist, req>>

\* r.wg.Wait() returns.
WaitReturns ==
    /\ sd.pc = "wait"
    /\ rp.pc = "exited"
    /\ sd' = [sd EXCEPT !.pc = "close"]
    /\ UNCHANGED <<cfg, started, storage, cb, h, rp, g, cbHist, req>>

\* r.storage.Close(ctx): the storage client is closed.
CloseStorage ==
    /\ sd.pc = "close"
    /\ sd' = [sd EXCEPT !.pc = "server"]
    /\ UNCHANGED <<cfg, started, storage, cb, h, rp, g, cbHist, req>>

\* No handler is between its arrival and its return.
Drained == \A r \in Reqs : h[r].pc \in {"idle", "done"}

\* r.server.Shutdown(ctx): the listener is closed, and Shutdown returns when
\* the handlers in flight have returned or ctx has expired.
ServerShutdown ==
    /\ sd.pc = "server"
    /\ Drained \/ sd.expired
    /\ sd' = [sd EXCEPT !.pc = "returned"]
    /\ UNCHANGED <<cfg, started, storage, cb, h, rp, g, cbHist, req>>

InitShutdown == InitGhost

NextShutdown ==
    \/ PassStarts
    \/ PassExamines
    \/ Reprocess
    \/ PassDeletes
    \/ Tick
    \/ CallShutdown
    \/ DeadlinePasses
    \/ LoopExits
    \/ WaitReturns
    \/ CloseStorage
    \/ ServerShutdown

\* Every step of Shutdown and of the loop is taken when it can be, and the
\* loop's select takes r.ctx.Done() at some visit; the consumer is not
\* required ever to return from ConsumeLogs.
ShutdownFairness ==
    /\ WF_vars(PassExamines)
    /\ WF_vars(PassDeletes)
    /\ WF_vars(DeadlinePasses)
    /\ SF_vars(LoopExits)
    /\ WF_vars(WaitReturns)
    /\ WF_vars(CloseStorage)
    /\ WF_vars(ServerShutdown)

SpecShutdown == InitShutdown /\ [][NextShutdown]_vars /\ ShutdownFairness

\* Shutdown of a started receiver with requests in flight: the requests are
\* those that arrived before Shutdown was called, and the ticker does not
\* fire meanwhile.
Arrives(r) == sd.pc = "running" /\ Receive(r)

NextDrain ==
    \/ \E r \in Reqs : Arrives(r)
    \/ \E r \in Reqs : ConsumeInline(r)
    \/ \E r \in Reqs : FinishInline(r)
    \/ CallShutdown
    \/ DeadlinePasses
    \/ LoopExits
    \/ WaitReturns
    \/ CloseStorage
    \/ ServerShutdown

SpecDrain == InitLive /\ [][NextDrain]_vars

\* --------------------------------------------------------------------- Start
\* Start(ctx, host) of a constructed receiver.  Here sd is the receiver's
\* life: what the host offered for cfg.StorageID (host), what Start returned
\* (result), and the goroutine of r.server.ListenAndServe() (server: "none",
\* "launched", "listening", or "failed" when the endpoint cannot be bound).
\* rp.pc = "none": processStoredLogsLoop has not been launched.
HostOffers == {"missing", "wrongType", "clientErr", "client"}

Constructed ==
    [pc |-> "new", cancelled |-> FALSE, expired |-> FALSE,
     host |-> "none", result |-> "none", server |-> "none"]

InitStart ==
    /\ cfg \in Configs
    /\ sd = Constructed
    /\ started = FALSE
    /\ storage \in SeedStorages(cfg)
    /\ cb = NewCircuitBreaker(cfg)
    /\ h = [r \in Reqs |-> NewRequest]
    /\ rp = [IdleReprocessor EXCEPT !.pc = "none"]
    /\ g = [k \in EntryKeys |-> NewHistory]
    /\ cbHist = NewBreakerHistory
    /\ req = [k \in EntryKeys |->
                [indexed |-> InSeq(k, getAllKeys(storage)), blob |-> storage[k] # Nil]]

\* Mutant of Start: the goroutines are launched before the storage
\* extension is looked up.
Start_LaunchFirst(host) ==
    /\ sd.pc = "new"
    /\ sd' = [sd EXCEPT !.pc = IF host = "client" THEN "running" ELSE "failed",
                        !.host = host, !.server = "launched",
                        !.result = IF host = "client" THEN "nil" ELSE "error"]
    /\ started' = (host = "client")
    /\ rp' = IdleReprocessor
    /\ UNCHANGED <<cfg, storage, cb, h, g, cbHist, req>>

\* Start: the extension is looked up, asserted to be a storage.Extension and
\* asked for a client, each failure returning an error; then the server
\* goroutine and the loop goroutine are launched and nil is returned.
Start(host) ==
    /\ sd.pc = "new"
    /\ IF host # "client" THEN
            /\ sd' = [sd EXCEPT !.pc = "failed", !.host = host, !.result = "error"]
            /\ UNCHANGED <<started, rp>>
       ELSE
            /\ sd' = [sd EXCEPT !.pc = "running", !.host = host,
                                !.server = "launched", !.result = "nil"]
            /\ started' = TRUE
            /\ rp' = IdleReprocessor
    /\ UNCHANGED <<cfg, storage, cb, h, g, cbHist, req>>

\* The server goroutine: r.server.ListenAndServe() binds the endpoint, or
\* returns an error, which is logged.
ListenAndServe(bound) ==
    /\ sd.server = "launched"
    /\ sd' = [sd EXCEPT !.server = IF bound THEN "listening" ELSE "failed"]
    /\ UNCHANGED <<cfg, started, storage, cb, h, rp, g, cbHist, req>>

NextStart ==
    \/ \E host \in HostOffers : Start(host)
    \/ \E bound \in BOOLEAN : ListenAndServe(bound)
    \/ PassStarts
    \/ PassExamines
    \/ Reprocess
    \/ PassDeletes
    \/ Tick

SpecStart == InitStart /\ [][NextStart]_vars

\* ------------------------------------------------- the Redis storage's Start
\* part_009:140-141, 144, 168; seconds.
maxRetries == 10
retryDelay == 2
startupDelay == 5
pingTimeout == 30

\* How a ping ends: with a reply, with an error at once, or with the error
\* of its timeout.
PingOutcomes == {"ok", "refused", "timeout"}

\* newRedisStorage; sd holds the extension and the position of its Start:
\* pings counts the pings made and elapsed the seconds slept or waited.
newRedisStorage ==
    [pc |-> "new", attempt |-> 0, client |-> "nil", lastErr |-> "nil",
     result |-> "none", pings |-> 0, elapsed |-> 0]

InitRedis ==
    /\ cfg \in Configs
    /\ sd = newRedisStorage
    /\ started = FALSE
    /\ storage = EmptyStorage
    /\ cb = NewCircuitBreaker(cfg)
    /\ h = [r \in Reqs |-> NewRequest]
    /\ rp = [IdleReprocessor EXCEPT !.pc = "none"]
    /\ g = [k \in EntryKeys |-> NewHistory]
    /\ cbHist = NewBreakerHistory
    /\ req = [r \in Reqs |-> Nil]

\* Start, first statement: a TLS configuration that does not load ends Start.
LoadTLSConfig(ok) ==
    /\ sd.pc = "new"
    /\ sd' = IF ok THEN [sd EXCEPT !.pc = "sleep"]
             ELSE [sd EXCEPT !.pc = "returned", !.result = "error"]
    /\ UNCHANGED <<cfg, started, storage, cb, h, rp, g, cbHist, req>>

\* time.Sleep(5 * time.Second) before the loop.
StartupSleep ==
    /\ sd.pc = "sleep"
    /\ sd' = [sd EXCEPT !.pc = "loop", !.elapsed = @ + startupDelay]
    /\ UNCHANGED <<cfg, started, storage, cb, h, rp, g, cbHist, req>>

\* Mutant of MoreAttempts: the loop condition admits attempt = maxRetries.
MoreAttempts_Inclusive(rs) == rs.attempt <= maxRetries

\* The loop condition.
MoreAttempts(rs) == rs.attempt < maxRetries

\* One iteration of the loop: a new client is pinged; a reply sets rs.client
\* and returns nil; an error closes the client, is kept as lastErr, and all
\* but the last attempt sleep retryDelay.
Attempt(rs, outcome) ==
    LET waited == IF outcome = "timeout" THEN pingTimeout ELSE 0 IN
    IF outcome = "ok"
    THEN [rs EXCEPT !.client = "set", !.pc = "returned", !.result = "nil",
                    !.pings = @ + 1, !.elapsed = @ + waited]
    ELSE [rs EXCEPT !.lastErr = outcome, !.pings = @ + 1,
                    !.elapsed = @ + waited +
                        (IF rs.attempt < maxRetries - 1 THEN retryDelay ELSE 0),
                    !.attempt = @ + 1]

Ping(outcome) ==
    /\ sd.pc = "loop" /\ MoreAttempts(sd)
    /\ sd' = Attempt(sd, outcome)
    /\ UNCHANGED <<cfg, started, storage, cb, h, rp, g, cbHist, req>>

\* The loop is left: Start returns the error that wraps lastErr.
AttemptsExhausted ==
    /\ sd.pc = "loop" /\ ~MoreAttempts(sd)
    /\ sd' = [sd EXCEPT !.pc = "returned", !.result = "error"]
    /\ UNCHANGED <<cfg, started, storage, cb, h, rp, g, cbHist, req>>

NextRedis ==
    \/ \E ok \in BOOLEAN : LoadTLSConfig(ok)
    \/ StartupSleep
    \/ \E outcome \in PingOutcomes : Ping(outcome)
    \/ AttemptsExhausted

\* Start is one goroutine running to its return: every sleep ends and every
\* ping returns, at the latest with its timeout.
RedisFairness == WF_vars(NextRedis)

SpecRedis == InitRedis /\ [][NextRedis]_vars /\ RedisFairness

\* ==================================================================== claims
Absent(k) == storage[k] = Nil /\ ~InSeq(k, getAllKeys(storage))

\* The handler of request r has returned after a non-empty OTLP batch.
Returned(r) == h[r].pc = "done" /\ h[r].nonEmpty

\* C1: a delete batch is issued for an entry, and an entry that was stored is
\* gone from storage, only after a ConsumeLogs call for it returned nil.
C1_DeleteOnlyAfterDelivery ==
    \A k \in EntryKeys :
        /\ g[k].deleted => g[k].delivered >= 1
        /\ h[k].stored /\ storage[k] = Nil => g[k].delivered >= 1

\* C1 witness: the reprocessor delivered and removed an entry whose inline
\* attempt had failed.
C1_Witness ==
    \E k \in EntryKeys :
        h[k].stored /\ ~h[k].ok /\ g[k].deleted /\ storage[k] = Nil

C3_Original == \A k \in EntryKeys : g[k].delivered <= 1

\* C3 amended: an entry is delivered successfully more than once only if a
\* delete batch for it failed after a delivery, or the reprocessor took it up
\* while its ingest handler had not yet returned; the inline attempt itself
\* is made at most once.
C3_TwiceOnlyAfterFailedDeleteOrRace ==
    \A k \in EntryKeys :
        /\ h[k].calls <= 1
        /\ g[k].delivered >= 2 => g[k].delFailed \/ g[k].raced

\* C3 witness: an entry whose inline attempt failed went through the
\* reprocessor, was delivered once and removed, with no failed delete.
C3_Witness ==
    \E k \in EntryKeys :
        /\ h[k].pc = "done" /\ h[k].stored /\ ~h[k].ok
        /\ g[k].delivered = 1 /\ ~g[k].delFailed /\ Absent(k)

\* C5: a key is in the index at keysListKey iff its entry blob exists.
C5_IndexBlobConsistency ==
    \A k \in EntryKeys : InSeq(k, getAllKeys(storage)) <=> storage[k] # Nil

\* C5 witness: after a removal, another entry is still stored and indexed.
C5_Witness ==
    \E k, j \in EntryKeys :
        /\ storage[k] # Nil /\ InSeq(k, getAllKeys(storage))
        /\ g[j].deleted /\ h[j].stored /\ storage[j] = Nil

Rejected(r) == Returned(r) /\ h[r].calls = 1 /\ ~h[r].ok

\* C7 as stated: when the consumer rejects the inline attempt the handler
\* answers an error status, issues no delete, and blob and index key are both
\* present when it returns.
C7_Original ==
    \A r \in Reqs :
        started /\ Rejected(r) =>
            h[r].status >= 400 /\ ~h[r].delIssued /\ h[r].present

\* C7 amended: when the consumer rejects the inline attempt the handler
\* answers an error status and issues no delete; blob and index key are both
\* present when it returns unless the reprocessor has delivered the entry in
\* the meantime.
C7_RejectedStaysUnlessReprocessed ==
    \A r \in Reqs :
        started /\ Rejected(r) =>
            /\ h[r].status >= 400 /\ ~h[r].delIssued
            /\ h[r].present \/ g[r].delivered >= 1

\* C7 witness: a rejected inline attempt, with the entry still stored.
C7_Witness ==
    \E r \in Reqs : started /\ Rejected(r) /\ h[r].present /\ storage[r] # Nil

\* C8 as stated: 200 OK for a non-empty batch is written only after the entry
\* was persisted and the inline ConsumeLogs call returned nil.
C8_Original ==
    \A r \in Reqs :
        h[r].nonEmpty /\ h[r].status = 200 => h[r].stored /\ h[r].ok

\* C8 amended: on a started receiver, 200 OK for a non-empty batch is written
\* only after the entry was persisted and the inline ConsumeLogs call
\* returned nil.
C8_OkOnlyAfterPersistAndDelivery ==
    \A r \in Reqs :
        started /\ h[r].nonEmpty /\ h[r].status = 200 => h[r].stored /\ h[r].ok

\* C8 witness: 200 OK written for a stored entry, the delete still to come.
C8_Witness ==
    \E r \in Reqs : started /\ h[r].status = 200 /\ h[r].pc = "delete"

C10_OpensAtThreshold ==
    LET threshold == IF cfg.CircuitOpenThreshold = 0 THEN 5
                     ELSE cfg.CircuitOpenThreshold
    IN  /\ cbHist.run < threshold => cb.state = CircuitClosed
        /\ cbHist.run = threshold /\ cbHist.last = "failure" =>
                cb.state = CircuitOpen

\* C10 witness: with the threshold left 0, the fifth failure has opened the
\* breaker.
C10_Witness ==
    /\ cfg.CircuitOpenThreshold = 0
    /\ cbHist.run = 5 /\ cbHist.last = "failure" /\ cb.state = CircuitOpen

\* C4: an entry that was persisted and whose inline attempt failed is
\* eventually delivered successfully and gone from storage and index.
C4_EventuallyDelivered ==
    \A k \in EntryKeys :
        (h[k].pc = "done" /\ h[k].stored /\ h[k].calls = 1 /\ ~h[k].ok)
            ~> (g[k].delivered >= 1 /\ Absent(k))

\* C4 witness: with the breaker enabled and closed again, an entry whose
\* inline attempt failed has been delivered and removed while another entry
\* is still waiting.
C4_Witness ==
    /\ cfg.Enabled /\ cb.state = CircuitClosed
    /\ \E k, j \in EntryKeys :
        /\ h[k].pc = "done" /\ h[k].stored /\ ~h[k].ok
        /\ g[k].delivered >= 1 /\ Absent(k)
        /\ k # j /\ storage[j] # Nil

\* C11: a RecordFailure call made while the breaker was half-open leaves it
\* open, whatever the failure counter was.
C11_HalfOpenFailureOpens ==
    cbHist.last = "failure" /\ cbHist.prev.state = "half-open" =>
        cb.state = "open"

\* C11 witness: a failure was recorded on a half-open breaker.
C11_Witness ==
    /\ cbHist.last = "failure" /\ cbHist.prev.state = "half-open"
    /\ cb.state = "open" /\ cb.consecutiveFails > cbHist.prev.consecutiveFails

\* C12: a RecordSuccess call, in whatever state the breaker was, leaves it
\* closed with no consecutive failures.
C12_SuccessCloses ==
    cbHist.last = "success" =>
        cb.state = "closed" /\ cb.consecutiveFails = 0

\* C12 witness: a success was recorded on an open breaker that had counted
\* failures.
C12_Witness ==
    /\ cbHist.last = "success" /\ cbHist.prev.state = "open"
    /\ cbHist.prev.consecutiveFails > 0 /\ cb.state = "closed"

\* C13: CheckCircuitBreakerState on an open breaker answers false and leaves
\* it as it was while less than the open duration (60 s for 0) has passed
\* since the last failure, and makes it half-open and answers true otherwise;
\* on a closed or half-open breaker it answers true and changes nothing; the
\* answer is true iff the breaker is closed or half-open after the call.
C13_CheckCircuitBreakerState ==
    LET openDuration == IF cfg.CircuitOpenDuration = 0 THEN 60
                        ELSE cfg.CircuitOpenDuration
        before == cbHist.prev
        answer == cbHist.last = "allowed"
    IN  cbHist.last \in {"allowed", "refused"} =>
            /\ before.state = "open" /\ before.sinceFail < openDuration =>
                    ~answer /\ cb = before
            /\ before.state = "open" /\ before.sinceFail >= openDuration =>
                    answer /\ cb = [before EXCEPT !.state = "half-open"]
            /\ before.state \in {"closed", "half-open"} =>
                    answer /\ cb = before
            /\ answer <=> cb.state \in {"closed", "half-open"}

\* C13 witness: the call found the breaker open with the open duration
\* elapsed and made it half-open.
C13_Witness ==
    /\ cbHist.last = "allowed" /\ cbHist.prev.state = "open"
    /\ cb.state = "half-open"

\* C14: an attempt that a half-open breaker let through and that ended in
\* success has closed the breaker when it completes, so the half-open episode
\* it belongs to sees at most one successful attempt; while the attempt is
\* under way the breaker is still half-open.
C14_OneSuccessfulProbe ==
    /\ rp.probe => rp.pc \in {"consume", "delete"}
    /\ rp.probe /\ rp.pc = "consume" => cb.state = "half-open"
    /\ rp.probe /\ rp.pc = "delete" => cb.state = "closed"

\* C14 witness: a half-open probe has succeeded and its entry awaits the
\* delete; the breaker is closed.
C14_Witness ==
    rp.probe /\ rp.pc = "delete" /\ cb.state = "closed" /\ cb.consecutiveFails = 0

\* The breaker is enabled, open, and less than the open duration (60 s for 0)
\* has passed since the last failure.
OpenAndWaiting ==
    /\ cfg.Enabled /\ cb.state = "open"
    /\ cb.sinceFail < (IF cfg.CircuitOpenDuration = 0 THEN 60
                       ELSE cfg.CircuitOpenDuration)

\* C15 as stated: a request with a non-empty batch that arrives while the
\* breaker is enabled, open and within its open duration is persisted and
\* its handler returns without going on to the ConsumeLogs call.
C15_Original ==
    [][\A r \in Reqs :
        (/\ OpenAndWaiting
         /\ h[r].pc = "idle" /\ h'[r].nonEmpty /\ ~h'[r].storeErr)
        => h'[r].stored /\ h'[r].pc = "done" /\ h'[r].calls = 0]_vars

\* C16 as stated: a failed inline attempt is counted by the breaker: on a
\* closed breaker it adds one to the consecutive failures and leaves the
\* breaker open iff they have reached the threshold (5 for 0).
C16_Original ==
    [][\A r \in Reqs :
        (/\ cfg.Enabled /\ cb.state = "closed"
         /\ h[r].pc = "attempt" /\ h'[r].pc = "done" /\ ~h'[r].ok)
        => /\ cb'.consecutiveFails = cb.consecutiveFails + 1
           /\ cb'.state = "open" <=>
                cb'.consecutiveFails >= (IF cfg.CircuitOpenThreshold = 0 THEN 5
                                         ELSE cfg.CircuitOpenThreshold)]_vars

\* The reprocessor leaves the key it stands at: it goes on to the consumer
\* call, to the next key, or out of the pass.
LeavesKey == rp.pc = "loop" /\ (rp'.pc # "loop" \/ rp'.pos # rp.pos)

\* With the breaker disabled it is closed, without failures or failure time.
C17_Untouched ==
    ~cfg.Enabled =>
        cb = [state |-> "closed", consecutiveFails |-> 0, sinceFail |-> 60]

\* With the breaker disabled, an entry the reprocessor has read, that decodes
\* and has reached the age threshold (30 s for 0), goes to the consumer.
C17_Attempted ==
    (/\ ~cfg.Enabled
     /\ LeavesKey
     /\ rp'.last # "getErr"
     /\ storage[CurrentKey] # Nil
     /\ storage[CurrentKey].dec = "ok" /\ decodeBody(storage[CurrentKey]) # "error"
     /\ storage[CurrentKey].age >=
            (IF cfg.ProcessAgeThreshold = 0 THEN 30 ELSE cfg.ProcessAgeThreshold)
            + rp.sinceCutoff)
    => rp'.pc = "consume"

\* C17: with the breaker disabled it stays closed with no failures and no
\* failure time in every state, and every entry the reprocessor reads that
\* decodes and has reached the age threshold is handed to the consumer.
C17_DisabledBreakerUntouched == []C17_Untouched /\ [][C17_Attempted]_vars

\* C17 witness: with the breaker disabled, the reprocessor attempts the
\* second entry of a pass; the inline attempts on both entries had failed and
\* the first, old enough as well, is still pending and undelivered.
C17_Witness ==
    /\ ~cfg.Enabled /\ rp.pc = "consume" /\ rp.pos = 2 /\ rp.sinceCutoff = 0
    /\ \A i \in {1, 2} :
            /\ h[rp.keys[i]].pc = "done" /\ h[rp.keys[i]].calls = 1
            /\ ~h[rp.keys[i]].ok /\ g[rp.keys[i]].delivered = 0
            /\ storage[rp.keys[i]] # Nil /\ storage[rp.keys[i]].age >= 30

\* No ConsumeLogs call of the reprocessor is under way on an open breaker.
C18_NoCallWhileOpen == cfg.Enabled /\ rp.pc = "consume" => cb.state # "open"

\* An entry the reprocessor comes to while the breaker is open and waiting is
\* passed over.
C18_Skipped ==
    OpenAndWaiting /\ LeavesKey /\ storage[CurrentKey] # Nil =>
        rp'.pc # "consume" /\ storage' = storage /\ cb' = cb

\* C18: the reprocessor has no ConsumeLogs call under way while the breaker
\* is open, and while the breaker is open and within its open duration every
\* entry it comes to is passed over: no attempt, storage and breaker as they
\* were.
C18_NoAttemptWhileOpen == []C18_NoCallWhileOpen /\ [][C18_Skipped]_vars

\* C18 witness: the breaker is open, the first entry of the pass was passed
\* over for it and is still stored, the second is next.
C18_Witness ==
    /\ cfg.Enabled /\ cb.state = "open" /\ cb.sinceFail = 0
    /\ rp.pc = "loop" /\ rp.pos = 2 /\ rp.last = "refused"
    /\ storage[rp.keys[1]] # Nil /\ storage[rp.keys[2]] # Nil

\* The Content-Type values of an OTLP request.
OTLPTypes ==
    {"application/x-protobuf", "application/json", "application/vnd.google.protobuf"}

\* Request q is a POST of an OTLP Content-Type whose batch has no records.
EmptyRequest(q) ==
    q # Nil /\ q.method = "POST" /\ q.ctype \in OTLPTypes /\ q.body = "empty"

\* Request q is a POST of another Content-Type, or its body does not decode.
ClientError(q) ==
    q # Nil /\ q.method = "POST" /\ (q.ctype \notin OTLPTypes \/ q.body = "malformed")

\* Nothing was stored or delivered for request r.
Untouched(r) ==
    /\ ~h[r].stored /\ h[r].calls = 0 /\ g[r].delivered = 0
    /\ storage[r] = Nil /\ ~InSeq(r, getAllKeys(storage))

\* A request without records has been answered 200 with an export response.
C19_Answered ==
    \A r \in Reqs :
        h[r].pc # "idle" /\ EmptyRequest(req[r]) =>
            /\ h[r].pc = "done" /\ h[r].status = 200
            /\ h[r].resp = "ExportResponse"
            /\ Untouched(r)

\* Handling a request without records changes no storage, delivery or breaker.
C19_Frame ==
    \A r \in Reqs :
        h[r].pc = "idle" /\ EmptyRequest(req'[r]) =>
            storage' = storage /\ g' = g /\ cb' = cb

\* C19: a POST of an accepted Content-Type whose body decodes to a batch
\* without records is answered 200 with an export response; the handler
\* returns in that step, which leaves storage, deliveries and breaker as
\* they were, and neither blob nor index key of the request exists.
C19_EmptyBatch == []C19_Answered /\ [][C19_Frame]_vars

\* C19 witness: a batch without records was answered 200 while another entry
\* is stored.
C19_Witness ==
    \E r, q \in Reqs :
        /\ h[r].pc = "done" /\ req[r].body = "empty" /\ h[r].status = 200
        /\ storage[q] # Nil

\* A client error has been answered 400.
C20_Answered ==
    \A r \in Reqs :
        h[r].pc # "idle" /\ ClientError(req[r]) =>
            h[r].pc = "done" /\ h[r].status = 400 /\ Untouched(r)

\* Handling a client error changes no storage, delivery or breaker.
C20_Frame ==
    \A r \in Reqs :
        h[r].pc = "idle" /\ ClientError(req'[r]) =>
            storage' = storage /\ g' = g /\ cb' = cb

\* C20: a POST with an unsupported Content-Type, or with a body that does
\* not decode, is answered 400; the handler returns in that step, which
\* leaves storage, deliveries and breaker as they were; nothing was stored
\* for the request and the consumer was not called.
C20_ClientErrorTouchesNothing == []C20_Answered /\ [][C20_Frame]_vars

\* C20 witness: a request with an unsupported Content-Type and one with a
\* malformed body were answered 400.
C20_Witness ==
    \E r, q \in Reqs :
        /\ h[r].pc = "done" /\ req[r].ctype = "text/plain" /\ h[r].status = 400
        /\ h[q].pc = "done" /\ req[q].ctype = "application/json"
        /\ req[q].body = "malformed" /\ h[q].status = 400

\* Request q used another method than POST.
NotPost(q) == q # Nil /\ q.method # "POST"

\* C21: a request with a method other than POST is answered 405 Method Not
\* Allowed, and nothing is stored or delivered for it.
C21_Original ==
    \A r \in Reqs :
        h[r].pc # "idle" /\ NotPost(req[r]) =>
            h[r].pc = "done" /\ h[r].status = 405 /\ Untouched(r)

\* Request q is a POST of a protobuf body that decodes to a non-empty batch.
ValidProtobuf(q) ==
    /\ q # Nil /\ q.method = "POST" /\ q.body = "batch"
    /\ q.ctype = "application/x-protobuf"

PassCompleted == rp.pc = "idle" /\ rp.last # "none"

\* C23: after a complete pass of the reprocessor with storage operations
\* succeeding and no ingest, the index holds exactly the keys whose blobs
\* exist, which are the keys that started with a blob and were not delivered
\* since; when no blob is left the index key itself is gone.
C23_GhostReconciliation ==
    PassCompleted =>
        /\ \A k \in EntryKeys :
                /\ InSeq(k, getAllKeys(storage)) <=> storage[k] # Nil
                /\ storage[k] # Nil <=> req[k].blob /\ g[k].delivered = 0
        /\ (\A k \in EntryKeys : storage[k] = Nil) => storage[keysListKey] = Nil

\* C23 witness: of two indexed keys one had no blob and the other a young
\* entry; the pass has removed the ghost key and kept the other.
C23_Witness ==
    \E a, b \in EntryKeys :
        /\ a # b /\ PassCompleted /\ rp.last = "ghost"
        /\ req[a].indexed /\ req[a].blob /\ req[b].indexed /\ ~req[b].blob
        /\ storage[keysListKey] = MarshalKeys(<<a>>)
        /\ storage[a] # Nil /\ storage[a].age < AgeThreshold(cfg)

\* C23 witness: the only blob was delivered and the index is gone.
C23_WitnessDelivered ==
    \E a, b \in EntryKeys :
        /\ a # b /\ PassCompleted
        /\ req[a].indexed /\ req[a].blob /\ req[b].indexed /\ ~req[b].blob
        /\ g[a].delivered > 0 /\ storage[keysListKey] = Nil

\* C24: with every read-modify-write of the index under keysListMutex, at
\* most one goroutine is between Lock and Unlock, the index in storage is
\* what the completed operations give when applied one after another, an
\* entry's blob exists exactly when its key is indexed or was a ghost key
\* from the start, and the key of every handler whose delivery failed is in
\* the index with its blob until the reprocessor deletes it.
C24_NoLostIndexUpdate ==
    /\ Cardinality({r \in Reqs : h[r].pc \in {"storing", "deleting"}})
            + (IF rp.pc = "locked" THEN 1 ELSE 0) <= 1
    /\ getAllKeys(storage) = req.index
    /\ \A r \in Reqs :
            /\ storage[r] # Nil => InSeq(r, getAllKeys(storage))
            /\ h[r].pc = "done" /\ h[r].rejected /\ ~g[r].deleted =>
                    storage[r] # Nil /\ InSeq(r, getAllKeys(storage))

\* C24 witness: all handlers ran while another was under way, all
\* deliveries failed, and all keys are in the index.
C24_Witness ==
    /\ \A r \in Reqs : h[r].pc = "done" /\ h[r].rejected
    /\ \E r \in Reqs : h[r].met
    /\ \A r \in Reqs : InSeq(r, getAllKeys(storage))
    /\ Len(getAllKeys(storage)) = NumReqs

\* C24 witness: the reprocessor has removed a ghost key and a handler has
\* stored its entry; the index holds the handler's key only.
C24_WitnessGhost ==
    \E a, b \in Reqs :
        /\ a # b /\ h[b].pc = "none" /\ h[a].pc = "attempt"
        /\ rp.pc = "idle" /\ req.index = <<a>>
        /\ storage[keysListKey] = MarshalKeys(<<a>>)

\* The blob at the index key is absent or a list with at least one key, and
\* the operations of a deletion are Delete(entryKey) and the index update.
C25_State ==
    /\ storage[keysListKey] = Nil \/ Len(UnmarshalKeys(storage[keysListKey])) > 0
    /\ \A k \in EntryKeys :
            LET ops == deleteOps(storage, k)
                newKeys == Without(getAllKeys(storage), k)
            IN  /\ Len(ops) = 2 /\ ops[1] = DeleteOperation(k)
                /\ ops[2] = IF newKeys = <<>> THEN DeleteOperation(keysListKey)
                            ELSE SetOperation(keysListKey, MarshalKeys(newKeys))

\* A step that deletes a blob takes its key out of the index as well.
C25_Step ==
    \A k \in EntryKeys :
        storage[k] # Nil /\ storage'[k] = Nil =>
            getAllKeys(storage') = Without(getAllKeys(storage), k)

\* C25: an entry is deleted by one batch of Delete(entryKey) and the index
\* update, so blob and index key go in the same step; removing the last key
\* deletes the index key, and the blob at the index key is always absent or
\* a non-empty list.
C25_IndexAbsentOrNonEmpty == []C25_State /\ [][C25_Step]_vars

\* C25 witness: two entries were indexed, both were deleted by successful
\* batches, and the index key is gone.
C25_Witness ==
    /\ \A r \in Reqs : h[r].stored /\ g[r].deleted /\ storage[r] = Nil
    /\ \E r \in Reqs : h[r].pc = "done" /\ h[r].delOK /\ rp.last = "attempt"
    /\ storage[keysListKey] = Nil

\* No key occurs twice in sequence s.
NoDuplicates(s) == \A i, j \in 1..Len(s) : s[i] = s[j] => i = j

\* The index has no duplicates, and the operations of a store are
\* Set(entryKey, payload) followed, only for a key that is not indexed, by
\* Set of the index with the key appended.
C26_State ==
    /\ NoDuplicates(getAllKeys(storage))
    /\ \A k \in EntryKeys :
            LET e == NewEntry(k, JSONType, "batch")
                keys == getAllKeys(storage)
                ops == storeOps(storage, k, e)
            IN  /\ ops[1] = SetOperation(k, e)
                /\ InSeq(k, keys) => Len(ops) = 1
                /\ ~InSeq(k, keys) =>
                        /\ Len(ops) = 2
                        /\ ops[2] = SetOperation(keysListKey, MarshalKeys(Append(keys, k)))
                /\ NoDuplicates(getAllKeys(Batch(storage, ops)))

\* A step changes the index by appending one key that was not in it or by
\* taking one key out, so the keys that stay keep their order.
C26_Step ==
    LET keys == getAllKeys(storage)
        keysAfter == getAllKeys(storage')
    IN  keysAfter # keys =>
            \E k \in EntryKeys :
                \/ ~InSeq(k, keys) /\ keysAfter = Append(keys, k)
                \/ InSeq(k, keys) /\ keysAfter = Without(keys, k)

\* C26: storing an entry is one batch of Set(entryKey, payload) and, only
\* when the key is not indexed yet, Set of the index with the key appended;
\* the index never holds a key twice and the keys that stay keep their
\* order.
C26_StoreAppendsOnce == []C26_State /\ [][C26_Step]_vars

\* C26 witness: a second entry was stored behind an indexed one, and a store
\* of either key would now leave the index alone.
C26_Witness ==
    /\ getAllKeys(storage) = <<2, 1>>
    /\ \A r \in Reqs : h[r].stored /\ storage[r] # Nil
    /\ \A k \in EntryKeys : Len(storeOps(storage, k, storage[k])) = 1

ValidRequest(q) ==
    q # Nil /\ q.method = "POST" /\ q.ctype \in OTLPTypes /\ q.body = "batch"

\* C28: a request answered 200 got the Content-Type of the request as the
\* Content-Type of the response, for each accepted Content-Type.
C28_Original ==
    \A r \in Reqs :
        ValidRequest(req[r]) /\ h[r].status = 200 => req[r].respType = req[r].ctype

\* Request q is a POST of a JSON body with a non-empty batch.
ValidJSON(q) == ValidRequest(q) /\ q.ctype = "application/json"

C30_Original == [](sd.pc = "wait" /\ sd.expired => <>(sd.pc = "returned"))

\* C31: once r.ctx is cancelled the reprocessor starts no consumer call and
\* no storage operation: a step taken after the cancellation neither enters
\* ConsumeLogs nor reads the key list, gets a blob, or issues a delete.
C31_Original ==
    [][sd.cancelled =>
        /\ ~(rp.pc # "consume" /\ rp'.pc = "consume")
        /\ ~(rp.pc = "loop" /\ rp' # rp /\ rp'.sinceCutoff = rp.sinceCutoff)
        /\ ~(rp.pc = "delete" /\ rp'.pc # "delete")]_vars

\* C32: a goroutine that is writing a field of the breaker holds the write
\* lock, so no other goroutine is inside the mutex at that moment, neither
\* writing nor reading.
C32_Original ==
    \A p \in Reqs :
        h[p].pc = "writing" =>
            /\ h[p].lock = "W"
            /\ \A q \in Reqs \ {p} : h[q].lock = "none"

\* The handler of r has answered a server error.
ServerError(r) == h[r].pc = "done" /\ h[r].status >= 500

C34_StartFailsWithoutLaunch ==
    /\ sd.result = "error" <=> sd.host \in {"missing", "wrongType", "clientErr"}
    /\ sd.result = "error" =>
            /\ sd.server = "none" /\ rp.pc = "none" /\ ~started
            /\ \A k \in EntryKeys :
                    /\ storage[k] # Nil <=> req[k].blob
                    /\ InSeq(k, getAllKeys(storage)) <=> req[k].indexed

\* C34 witness: the extension gave no client, Start has failed, and the
\* entries in storage are untouched.
C34_Witness ==
    /\ sd.host = "clientErr" /\ sd.result = "error" /\ sd.pc = "failed"
    /\ \E k \in EntryKeys : storage[k] # Nil /\ storage[k].age >= AgeThreshold(cfg)

\* C35: when Start has returned nil the server is listening or about to
\* listen: an endpoint that cannot be bound makes Start return an error,
\* never nil.
C35_Original ==
    /\ sd.result = "nil" => sd.server \in {"launched", "listening"}
    /\ sd.server = "failed" => sd.result = "error"

\* Shutdown has closed the storage client.
StorageClosed == sd.pc \in {"server", "returned"}

\* C36: once Shutdown has closed the storage client no handler issues a
\* storage operation: none stores an entry and none issues its delete.
C36_Original ==
    [][StorageClosed =>
        \A r \in Reqs :
            /\ ~(h[r].pc = "delete" /\ h'[r].pc = "done")
            /\ ~(h[r].pc = "idle" /\ (h'[r].stored \/ h'[r].storeErr))]_vars

\* The reprocessor is inside a pass.
InPass(p) == p.pc \in {"loop", "consume", "delete"}

\* Inside a pass the snapshot has no key twice, the position is one of its
\* indices, and the entry in hand is the one of the key at that position.
C37_State ==
    InPass(rp) =>
        /\ NoDuplicates(rp.keys)
        /\ rp.pos \in 1..Len(rp.keys)
        /\ rp.pc \in {"consume", "delete"} => rp.entry.id = rp.keys[rp.pos]

\* Inside a pass the snapshot stays as it was read and the position never
\* goes back; a consumer call is entered from the loop for the key at the
\* position, and the loop is entered again only at the next position.
C37_Step ==
    InPass(rp) /\ InPass(rp') =>
        /\ rp'.keys = rp.keys /\ rp'.pos >= rp.pos
        /\ rp.pc # "consume" /\ rp'.pc = "consume" =>
                rp.pc = "loop" /\ rp'.pos = rp.pos
        /\ rp'.pc = "loop" /\ rp'.sinceCutoff = rp.sinceCutoff /\ rp' # rp =>
                rp'.pos = rp.pos + 1

\* C37: in a pass the consumer is called for the keys of the snapshot read
\* at its start, in the order of the snapshot and at most once per key; a
\* key that entered the index after the snapshot is not taken up.
C37_SnapshotOrder == []C37_State /\ [][C37_Step]_vars

\* C37 witness: the pass calls the consumer for the second key of its
\* snapshot \<<2, 1>>.
C37_Witness ==
    /\ rp.pc = "consume" /\ rp.keys = <<2, 1>> /\ rp.pos = 2
    /\ rp.entry.id = 1

\* C37 witness: a key entered the index after the snapshot was read, and
\* the pass goes on with its snapshot.
C37_WitnessLateKey ==
    \E a, b \in EntryKeys :
        /\ rp.pc = "consume" /\ rp.keys = <<a>>
        /\ getAllKeys(storage) = <<a, b>>

\* Stored data e does not decode: the entry JSON does not unmarshal, or its
\* body is no OTLP protobuf.
Undecodable(e) ==
    e # Nil /\ (e.dec = "badEntry" \/ UnmarshalProto(e.Body) = "error")

\* The step is an iteration of the loop for a key whose entry does not
\* decode.
SkipsUndecodable ==
    /\ rp.pc = "loop" /\ Undecodable(storage[CurrentKey])
    /\ rp'.pc # "loop" \/ rp'.pos # rp.pos

\* C38 as stated: the iteration for an entry that does not decode leaves
\* the entry, calls no consumer and leaves the breaker as it was.
C38_Original ==
    [][SkipsUndecodable =>
        storage' = storage /\ rp'.pc # "consume" /\ g' = g /\ cb' = cb]_vars

\* An entry that does not decode is indexed and was never delivered or
\* deleted.
C38_State ==
    \A k \in EntryKeys :
        Undecodable(storage[k]) =>
            /\ InSeq(k, getAllKeys(storage))
            /\ g[k].delivered = 0 /\ ~g[k].deleted

\* The iteration for an entry that does not decode leaves storage as it
\* was, calls no consumer, records neither success nor failure, and goes on
\* to the next key or ends the pass; the breaker is as before, or was open
\* and is half-open now when the entry JSON did unmarshal and the open
\* duration had passed.  No step removes an entry that does not decode.
C38_Step ==
    /\ SkipsUndecodable =>
            /\ storage' = storage /\ g' = g
            /\ rp' = Continue(rp, rp'.last)
            /\ rp'.last \in {"badEntry", "badBody", "young", "refused"}
            /\ cb'.consecutiveFails = cb.consecutiveFails
            /\ cb'.sinceFail = cb.sinceFail
            /\ \/ cb' = cb
               \/ /\ cfg.Enabled /\ storage[CurrentKey].dec # "badEntry"
                  /\ cb.state = CircuitOpen /\ cb'.state = CircuitHalfOpen
                  /\ cb.sinceFail >= OpenDuration(cfg)
    /\ \A k \in EntryKeys :
            Undecodable(storage[k]) => Undecodable(storage'[k])

\* C38: an entry that does not decode stays in storage and in the index;
\* each pass skips it without a consumer call and without recording a
\* success or a failure, and goes on with the next key; the check of the
\* breaker that precedes the decoding of the body can still move an open
\* breaker to half-open.
C38_UndecodableStays == []C38_State /\ [][C38_Step]_vars

\* C38 witness: a pass has skipped an entry that does not decode and has
\* delivered and deleted the other entry of its snapshot.
C38_Witness ==
    \E a, b \in EntryKeys :
        /\ PassCompleted /\ req[a].blob /\ req[b].blob
        /\ Undecodable(storage[a]) /\ storage[keysListKey] = MarshalKeys(<<a>>)
        /\ g[b].delivered > 0 /\ g[b].deleted /\ storage[b] = Nil

\* C39 state part: a closed breaker has counted fewer failures than the
\* threshold in force, and an open or half-open breaker has counted at
\* least one.
C39_State ==
    /\ OpenThreshold(cfg) >= 1
    /\ cb.state = CircuitClosed => cb.consecutiveFails < OpenThreshold(cfg)
    /\ cb.state \in {CircuitOpen, CircuitHalfOpen} => cb.consecutiveFails >= 1

\* C39 step part: a step that makes the breaker half-open starts from an
\* open breaker.
C39_Step ==
    (cb'.state = CircuitHalfOpen /\ cb.state # CircuitHalfOpen) =>
        cb.state = CircuitOpen

\* C39: through RecordSuccess, RecordFailure and CheckCircuitBreakerState a
\* closed breaker always has consecutive failures below the threshold, an
\* open or half-open breaker has at least one, and half-open is entered
\* only from open.
C39_CounterStateInvariant == []C39_State /\ [][C39_Step]_vars

\* C39 witness: a half-open breaker, entered by the last check from an open
\* breaker, under a threshold above one.
C39_Witness ==
    /\ cfg.CircuitOpenThreshold = 2
    /\ cb.state = CircuitHalfOpen /\ cb.consecutiveFails = 2
    /\ cbHist.last = "allowed" /\ cbHist.prev.state = CircuitOpen

\* C40 state part: Start makes at most maxRetries pings; it has returned nil
\* exactly when a ping was answered, that ping was its last, and the client
\* is set; it has returned an error only with the client unset, after
\* maxRetries failed pings or before any ping.  The seconds spent are
\* bounded accordingly.
C40_State ==
    /\ sd.pings <= maxRetries /\ sd.attempt <= maxRetries
    /\ sd.elapsed <= startupDelay + maxRetries * pingTimeout
                        + (maxRetries - 1) * retryDelay
    /\ sd.client = "set" <=> sd.result = "nil"
    /\ sd.result = "nil" =>
            sd.pc = "returned" /\ sd.pings = sd.attempt + 1
    /\ sd.result = "error" =>
            /\ sd.pc = "returned" /\ sd.client = "nil"
            /\ \/ sd.pings = maxRetries /\ sd.lastErr # "nil"
               \/ sd.pings = 0 /\ sd.elapsed = 0
    /\ sd.pc = "returned" <=> sd.result # "none"

\* Start has returned.
C40_Returns == sd.pc = "returned"

\* C40: the Redis storage's Start returns after at most 10 pings: nil with
\* the client set at the first ping answered, an error with the client
\* unset after the 10th failed ping; it always returns.
C40_BoundedRetries == []C40_State /\ <>C40_Returns

\* C40 witness: Start has returned its error after ten failed pings, the
\* last of them timed out.
C40_Witness ==
    /\ sd.pc = "returned" /\ sd.result = "error" /\ sd.client = "nil"
    /\ sd.pings = maxRetries /\ sd.lastErr = "timeout"

\* C40 second witness: the tenth ping was answered and Start returned nil.
C40_WitnessLastAttempt ==
    /\ sd.result = "nil" /\ sd.client = "set" /\ sd.pings = maxRetries

====
